---- MODULE Spec2Model ----
(***************************************************************************)
(* Model of hello-py/src/lib.rs: the PyO3 binding that exposes             *)
(* hello_rs::hello to the Python host as _rust.hello.                      *)
(*                                                                         *)
(* Two ownership domains are modelled explicitly.  A host string (Python   *)
(* str) is a sequence of Unicode code points and may hold lone surrogates; *)
(* a native string (Rust &str / String) is a sequence of UTF-8 bytes.  The *)
(* #[pyfunction] wrapper of `hello` converts between the two, once in each *)
(* direction.                                                              *)
(*                                                                         *)
(* Host threads are interleaved freely at the granularity marshal-in /     *)
(* native call / marshal-out.  Under the GIL the host serialises whole     *)
(* calls; every such schedule is one of the interleavings explored here.   *)
(* Memory is assumed sufficient on the call path (allocation failure       *)
(* aborts the native side and is not a behaviour of this code).            *)
(***************************************************************************)
EXTENDS Integers, Sequences, FiniteSets, TLC

\* ------------------------------------------------------------------ bounds

\* Longest host string (in code points) passed to hello.
MaxLen == 2

\* ------------------------------------------------------------ host values

\* Code points used to build inputs: "a" (1 byte in UTF-8), e-acute (2
\* bytes), the globe emoji (4 bytes), and the lone surrogate U+D800, which
\* a Python str can hold and a Rust &str cannot.
Alphabet == {97, 233, 127757, 55296}

Threads == {"t1", "t2"}

RECURSIVE SeqsUpTo(_, _)
SeqsUpTo(S, n) ==
    IF n = 0 THEN {<<>>}
    ELSE LET shorter == SeqsUpTo(S, n - 1)
         IN  shorter \cup {Append(s, c) : s \in {x \in shorter : Len(x) = n - 1}, c \in S}

\* A Python str object / a Python object that is not a str.
PyStr(cps) == [type |-> "str", cps |-> cps]
PyInt == [type |-> "int", cps |-> <<>>]
NoValue == [type |-> "none", cps |-> <<>>]

StringsUpTo(n) == {PyStr(s) : s \in SeqsUpTo(Alphabet, n)}

HostStrings == StringsUpTo(MaxLen)
HostObjects == HostStrings \cup {PyInt}

\* Positional argument tuples the host may call hello with: the intended
\* single argument (a str or not), and calls of the wrong arity.
ArgTuplesOver(strs) ==
    {<<>>} \cup {<<o>> : o \in strs \cup {PyInt}}
           \cup {<<o, o>> : o \in {x \in strs \cup {PyInt} : Len(x.cps) < 2}}

ArgTuples == ArgTuplesOver(HostStrings)

\* The inputs of the fair specification: the strings one code point shorter.
ShortArgTuples == ArgTuplesOver(StringsUpTo(MaxLen - 1))

\* ------------------------------------------------- the marshalling boundary

IsSurrogate(c) == c >= 55296 /\ c <= 57343

\* UTF-8 encoding of one code point (PyUnicode_AsUTF8AndSize, per code point).
Utf8EncodeCp(c) ==
    IF c < 128 THEN <<c>>
    ELSE IF c < 2048 THEN <<192 + (c \div 64), 128 + (c % 64)>>
    ELSE IF c < 65536
         THEN <<224 + (c \div 4096), 128 + ((c \div 64) % 64), 128 + (c % 64)>>
    ELSE <<240 + (c \div 262144), 128 + ((c \div 4096) % 64),
           128 + ((c \div 64) % 64), 128 + (c % 64)>>

RECURSIVE Utf8Encode(_)
Utf8Encode(cps) ==
    IF cps = <<>> THEN <<>>
    ELSE Utf8EncodeCp(Head(cps)) \o Utf8Encode(Tail(cps))

\* Number of bytes announced by a UTF-8 lead byte; 0 for a byte that cannot lead.
Utf8Width(b) ==
    IF b < 128 THEN 1
    ELSE IF b >= 192 /\ b < 224 THEN 2
    ELSE IF b >= 224 /\ b < 240 THEN 3
    ELSE IF b >= 240 /\ b < 248 THEN 4
    ELSE 0

\* The code point encoded by the w bytes of bs that start at index i.
Utf8DecodeAt(bs, i, w) ==
    IF w = 1 THEN bs[i]
    ELSE IF w = 2 THEN (bs[i] - 192) * 64 + (bs[i + 1] - 128)
    ELSE IF w = 3
         THEN (bs[i] - 224) * 4096 + (bs[i + 1] - 128) * 64 + (bs[i + 2] - 128)
    ELSE (bs[i] - 240) * 262144 + (bs[i + 1] - 128) * 4096
         + (bs[i + 2] - 128) * 64 + (bs[i + 3] - 128)

\* Strict UTF-8 validity, as the host's decoder checks it while it scans bs
\* from the left: lead byte, continuation bytes, shortest form, no surrogate.
Utf8WellFormed(bs) ==
    LET wf[i \in 1..(Len(bs) + 1)] ==
            IF i > Len(bs) THEN TRUE
            ELSE LET w == Utf8Width(bs[i])
                 IN  /\ w > 0
                     /\ i + w - 1 <= Len(bs)
                     /\ \A j \in (i + 1)..(i + w - 1) : bs[j] >= 128 /\ bs[j] < 192
                     /\ LET c == Utf8DecodeAt(bs, i, w)
                        IN  /\ ~IsSurrogate(c)
                            /\ c <= 1114111
                            /\ Utf8EncodeCp(c) = SubSeq(bs, i, i + w - 1)
                     /\ wf[i + w]
    IN  wf[1]

\* UTF-8 decoding of a well-formed byte string (PyUnicode_FromStringAndSize),
\* scanning bs from the left.
Utf8Decode(bs) ==
    LET dec[i \in 1..(Len(bs) + 1)] ==
            IF i > Len(bs) THEN <<>>
            ELSE LET w == Utf8Width(bs[i])
                 IN  <<Utf8DecodeAt(bs, i, w)>> \o dec[i + w]
    IN  dec[1]

\* Outcome of a call as the host sees it: a returned value or a raised exception.
NoOutcome == [kind |-> "none", val |-> NoValue, exc |-> ""]
Returned(v) == [kind |-> "ok", val |-> v, exc |-> ""]
Raised(e) == [kind |-> "err", val |-> NoValue, exc |-> e]

\* A native slot: empty, or holding a byte string.
Empty == [held |-> FALSE, bytes |-> <<>>]
Holding(bs) == [held |-> TRUE, bytes |-> bs]

\* ExtractName with a lossy conversion: a lone surrogate becomes "?".
ExtractNameLossy(a) ==
    IF Len(a) # 1 THEN [ok |-> FALSE, exc |-> "TypeError", bytes |-> <<>>]
    ELSE IF a[1].type # "str" THEN [ok |-> FALSE, exc |-> "TypeError", bytes |-> <<>>]
    ELSE [ok |-> TRUE, exc |-> "",
          bytes |-> Utf8Encode([i \in 1..Len(a[1].cps) |->
                        IF IsSurrogate(a[1].cps[i]) THEN 63 ELSE a[1].cps[i]])]

\* Extraction of the argument `name: &str` by the #[pyfunction] wrapper:
\* arity check, type check (str), then the UTF-8 view of the str.
ExtractName(a) ==
    IF Len(a) # 1 THEN [ok |-> FALSE, exc |-> "TypeError", bytes |-> <<>>]
    ELSE IF a[1].type # "str" THEN [ok |-> FALSE, exc |-> "TypeError", bytes |-> <<>>]
    ELSE IF \E i \in 1..Len(a[1].cps) : IsSurrogate(a[1].cps[i])
         THEN [ok |-> FALSE, exc |-> "UnicodeEncodeError", bytes |-> <<>>]
    ELSE [ok |-> TRUE, exc |-> "", bytes |-> Utf8Encode(a[1].cps)]

\* IntoPy that stops at the first non-ASCII byte of the String.
IntoPyAsciiOnly(bs) ==
    LET cut == {i \in 1..Len(bs) : bs[i] >= 128}
        n == IF cut = {} THEN Len(bs) ELSE (CHOOSE i \in cut : \A j \in cut : i <= j) - 1
    IN  Returned(PyStr(SubSeq(bs, 1, n)))

\* Conversion of the returned String into a Python str by the wrapper.
IntoPy(bs) ==
    IF Utf8WellFormed(bs) THEN Returned(PyStr(Utf8Decode(bs)))
    ELSE Raised("PanicException")

\* The Native Function hello_rs::hello: format!("Hello, {}!", name), on bytes.
hello_rs_hello(name) == <<72, 101, 108, 108, 111, 44, 32>> \o name \o <<33>>

\* -------------------------------------------------------------------- state

VARIABLES
    initPc,       \* position of the module load: unloaded, wrap, add, ok, returned, loaded, failed
    initResult,   \* what hello_py returned: "none", "Ok", "Err"
    initFailure,  \* which step of hello_py failed: "none", "wrap", "add"
    wrapped,      \* name of the function object made by wrap_pyfunction!, "" if none
    moduleDict,   \* names of the callables added to the module object m
    sysModules,   \* module names the host can resolve
    pc,           \* per thread: idle, extract, native, convert, done
    args,         \* per thread: positional arguments of the call (host-owned)
    view,         \* per thread: the borrowed &str view of the input
    out,          \* per thread: the owned String returned by hello_rs::hello
    ret,          \* per thread: what the host caller received
    steps         \* per thread: how often each step of the current call ran

initVars == <<initPc, initResult, initFailure, wrapped, moduleDict, sysModules>>
callVars == <<pc, args, view, out, ret, steps>>
vars == <<initPc, initResult, initFailure, wrapped, moduleDict, sysModules,
          pc, args, view, out, ret, steps>>

NoSteps == [in |-> 0, native |-> 0, out |-> 0]

\* The module name PyO3 derives from the init function when it is given none.
ModuleNameFromFn == "hello_py"

\* #[pyo3(name = "_rust")]
ModuleName == "_rust"

\* fn hello: the #[pyfunction] is exported under the name of the Rust function.
FnName == "hello"

Init ==
    /\ initPc = "unloaded"
    /\ initResult = "none"
    /\ initFailure = "none"
    /\ wrapped = ""
    /\ moduleDict = {}
    /\ sysModules = {}
    /\ pc = [t \in Threads |-> "idle"]
    /\ args = [t \in Threads |-> <<>>]
    /\ view = [t \in Threads |-> Empty]
    /\ out = [t \in Threads |-> Empty]
    /\ ret = [t \in Threads |-> NoOutcome]
    /\ steps = [t \in Threads |-> NoSteps]

\* ------------------------------------------------------ module initialization

\* The host loads the extension and enters hello_py(m) with a fresh module m.
HostImport ==
    /\ initPc = "unloaded"
    /\ initPc' = "wrap"
    /\ UNCHANGED <<initResult, initFailure, wrapped, moduleDict, sysModules>>
    /\ UNCHANGED callVars

\* wrap_pyfunction!(hello, m)? : the function object, or Err returned at once.
hello_py_wrap ==
    /\ initPc = "wrap"
    /\ \E fails \in BOOLEAN :
         IF fails
         THEN /\ initFailure' = "wrap"
              /\ initResult' = "Err"
              /\ initPc' = "returned"
              /\ UNCHANGED wrapped
         ELSE /\ wrapped' = FnName
              /\ initPc' = "add"
              /\ UNCHANGED <<initFailure, initResult>>
    /\ UNCHANGED <<moduleDict, sysModules>>
    /\ UNCHANGED callVars

\* hello_py_add with the error of add_function dropped instead of returned.
hello_py_add_ignoring_error ==
    /\ initPc = "add"
    /\ \E fails \in BOOLEAN :
         IF fails
         THEN /\ initFailure' = "add"
              /\ UNCHANGED moduleDict
         ELSE /\ moduleDict' = moduleDict \cup {wrapped}
              /\ UNCHANGED initFailure
    /\ initPc' = "ok"
    /\ UNCHANGED <<initResult, wrapped, sysModules>>
    /\ UNCHANGED callVars

\* m.add_function(..)? : the function enters m under its own name, or Err
\* is returned at once.
hello_py_add ==
    /\ initPc = "add"
    /\ \E fails \in BOOLEAN :
         IF fails
         THEN /\ initFailure' = "add"
              /\ initResult' = "Err"
              /\ initPc' = "returned"
              /\ UNCHANGED moduleDict
         ELSE /\ moduleDict' = moduleDict \cup {wrapped}
              /\ initPc' = "ok"
              /\ UNCHANGED <<initFailure, initResult>>
    /\ UNCHANGED <<wrapped, sysModules>>
    /\ UNCHANGED callVars

\* Ok(())
hello_py_ok ==
    /\ initPc = "ok"
    /\ initResult' = "Ok"
    /\ initPc' = "returned"
    /\ UNCHANGED <<initFailure, wrapped, moduleDict, sysModules>>
    /\ UNCHANGED callVars

\* The host finishes the import: on Ok the module becomes resolvable under
\* its name, on Err the import raises and nothing is registered.
HostFinishImport ==
    /\ initPc = "returned"
    /\ IF initResult = "Ok"
       THEN /\ sysModules' = sysModules \cup {ModuleName}
            /\ initPc' = "loaded"
       ELSE /\ initPc' = "failed"
            /\ UNCHANGED sysModules
    /\ UNCHANGED <<initResult, initFailure, wrapped, moduleDict>>
    /\ UNCHANGED callVars

\* ---------------------------------------------------------------- the call

InProgress(t) == pc[t] \in {"extract", "native", "convert"}

\* The host resolves the function by module and function name and
\* invokes it on thread t with the positional arguments a.
StartCall(t, a) ==
    /\ pc[t] \in {"idle", "done"}
    /\ ModuleName \in sysModules
    /\ FnName \in moduleDict
    /\ pc' = [pc EXCEPT ![t] = "extract"]
    /\ args' = [args EXCEPT ![t] = a]
    /\ ret' = [ret EXCEPT ![t] = NoOutcome]
    /\ steps' = [steps EXCEPT ![t] = NoSteps]
    /\ UNCHANGED <<view, out>>
    /\ UNCHANGED initVars

\* MarshalIn that tries the extraction a second time when it fails.
MarshalInRetrying(t) ==
    /\ pc[t] = "extract"
    /\ LET x == ExtractName(args[t])
       IN  IF x.ok
           THEN /\ view' = [view EXCEPT ![t] = Holding(x.bytes)]
                /\ pc' = [pc EXCEPT ![t] = "native"]
                /\ UNCHANGED ret
           ELSE IF steps[t].in = 0
           THEN UNCHANGED <<view, pc, ret>>
           ELSE /\ ret' = [ret EXCEPT ![t] = Raised(x.exc)]
                /\ pc' = [pc EXCEPT ![t] = "done"]
                /\ UNCHANGED view
    /\ steps' = [steps EXCEPT ![t].in = @ + 1]
    /\ UNCHANGED <<args, out>>
    /\ UNCHANGED initVars

\* Marshal-in: `name: &str` is borrowed from the host argument, or the call
\* raises without running the body.
MarshalIn(t) ==
    /\ pc[t] = "extract"
    /\ LET x == ExtractName(args[t])
       IN  IF x.ok
           THEN /\ view' = [view EXCEPT ![t] = Holding(x.bytes)]
                /\ pc' = [pc EXCEPT ![t] = "native"]
                /\ UNCHANGED ret
           ELSE /\ ret' = [ret EXCEPT ![t] = Raised(x.exc)]
                /\ pc' = [pc EXCEPT ![t] = "done"]
                /\ UNCHANGED view
    /\ steps' = [steps EXCEPT ![t].in = @ + 1]
    /\ UNCHANGED <<args, out>>
    /\ UNCHANGED initVars

\* NativeCall reading the name from one buffer shared by all calls.
NativeCallSharedBuffer(t) ==
    /\ pc[t] = "native"
    /\ \E u \in Threads :
         /\ view[u].held
         /\ out' = [out EXCEPT ![t] = Holding(hello_rs_hello(view[u].bytes))]
    /\ pc' = [pc EXCEPT ![t] = "convert"]
    /\ steps' = [steps EXCEPT ![t].native = @ + 1]
    /\ UNCHANGED <<args, view, ret>>
    /\ UNCHANGED initVars

\* NativeCall whose result depends on the calls completed before it.
NativeCallCounting(t) ==
    /\ pc[t] = "native"
    /\ out' = [out EXCEPT ![t] =
                  Holding(hello_rs_hello(view[t].bytes)
                          \o (IF \E u \in Threads \ {t} : pc[u] = "done"
                              THEN <<33>> ELSE <<>>))]
    /\ pc' = [pc EXCEPT ![t] = "convert"]
    /\ steps' = [steps EXCEPT ![t].native = @ + 1]
    /\ UNCHANGED <<args, view, ret>>
    /\ UNCHANGED initVars

\* NativeCall behind a process-wide lock held until the holder returns.
NativeCallLocked(t) ==
    /\ pc[t] = "native"
    /\ \A u \in Threads \ {t} : pc[u] # "convert"
    /\ out' = [out EXCEPT ![t] = Holding(hello_rs_hello(view[t].bytes))]
    /\ pc' = [pc EXCEPT ![t] = "convert"]
    /\ steps' = [steps EXCEPT ![t].native = @ + 1]
    /\ UNCHANGED <<args, view, ret>>
    /\ UNCHANGED initVars

\* The body: hello_rs::hello(name), its owned String kept as the result.
NativeCall(t) ==
    /\ pc[t] = "native"
    /\ out' = [out EXCEPT ![t] = Holding(hello_rs_hello(view[t].bytes))]
    /\ pc' = [pc EXCEPT ![t] = "convert"]
    /\ steps' = [steps EXCEPT ![t].native = @ + 1]
    /\ UNCHANGED <<args, view, ret>>
    /\ UNCHANGED initVars

\* MarshalOut that also stores the result in the module under a name.
MarshalOutCaching(t) ==
    /\ pc[t] = "convert"
    /\ ret' = [ret EXCEPT ![t] = IntoPy(out[t].bytes)]
    /\ out' = [out EXCEPT ![t] = Empty]
    /\ view' = [view EXCEPT ![t] = Empty]
    /\ pc' = [pc EXCEPT ![t] = "done"]
    /\ steps' = [steps EXCEPT ![t].out = @ + 1]
    /\ moduleDict' = moduleDict \cup {"last"}
    /\ UNCHANGED args
    /\ UNCHANGED <<initPc, initResult, initFailure, wrapped, sysModules>>

\* MarshalOut that keeps the String alive after the return.
MarshalOutLeaking(t) ==
    /\ pc[t] = "convert"
    /\ ret' = [ret EXCEPT ![t] = IntoPy(out[t].bytes)]
    /\ view' = [view EXCEPT ![t] = Empty]
    /\ pc' = [pc EXCEPT ![t] = "done"]
    /\ steps' = [steps EXCEPT ![t].out = @ + 1]
    /\ UNCHANGED <<args, out>>
    /\ UNCHANGED initVars

\* Marshal-out and return: the String becomes a host-owned str, the String
\* is dropped and the borrow of the input ends.
MarshalOut(t) ==
    /\ pc[t] = "convert"
    /\ ret' = [ret EXCEPT ![t] = IntoPy(out[t].bytes)]
    /\ out' = [out EXCEPT ![t] = Empty]
    /\ view' = [view EXCEPT ![t] = Empty]
    /\ pc' = [pc EXCEPT ![t] = "done"]
    /\ steps' = [steps EXCEPT ![t].out = @ + 1]
    /\ UNCHANGED args
    /\ UNCHANGED initVars

CallStep(t) == MarshalIn(t) \/ NativeCall(t) \/ MarshalOut(t)

Next ==
    \/ HostImport
    \/ hello_py_wrap
    \/ hello_py_add
    \/ hello_py_ok
    \/ HostFinishImport
    \/ \E t \in Threads, a \in ArgTuples : StartCall(t, a)
    \/ \E t \in Threads : MarshalIn(t)
    \/ \E t \in Threads : NativeCall(t)
    \/ \E t \in Threads : MarshalOut(t)

Spec == Init /\ [][Next]_vars

\* The same program called with the shorter inputs.
ShortNext ==
    \/ HostImport
    \/ hello_py_wrap
    \/ hello_py_add
    \/ hello_py_ok
    \/ HostFinishImport
    \/ \E t \in Threads, a \in ShortArgTuples : StartCall(t, a)
    \/ \E t \in Threads : CallStep(t)

\* The host runs every thread that is inside a call: a started call's next
\* step is eventually taken.
FairSpec == Init /\ [][ShortNext]_vars /\ \A t \in Threads : WF_vars(CallStep(t))

\* ------------------------------------------------------- claim vocabulary

HasSurrogate(cps) == \E i \in 1..Len(cps) : IsSurrogate(cps[i])

\* A call with one positional argument that is a str the native side can hold.
ValidCall(a) == Len(a) = 1 /\ a[1].type = "str" /\ ~HasSurrogate(a[1].cps)

\* A call whose single argument has no interpretation as a native string.
Unmarshallable(a) == Len(a) = 1 /\ (a[1].type # "str" \/ HasSurrogate(a[1].cps))

Done(t) == pc[t] = "done"

\* The host string v is the text of the native string bs.
SameText(v, bs) == v.type = "str" /\ ~HasSurrogate(v.cps) /\ Utf8Encode(v.cps) = bs

\* What the Native Function returns for the text of the host string s.
NativeResultFor(s) == hello_rs_hello(Utf8Encode(s.cps))

Registry == <<sysModules, moduleDict>>

InitCompleted == initPc \in {"loaded", "failed"}

\* ------------------------------------------------------------------ claims

\* C1: for every valid input string s, the empty string included, a completed
\* hello(s) returns exactly the Native Function's result for s: the argument
\* reaches the Native Function unaltered, and the result reaches the caller
\* unaltered, never as an error.
IdentityProperty ==
    \A t \in Threads :
        ValidCall(args[t]) =>
            /\ pc[t] \in {"native", "convert"} =>
                   /\ view[t].held
                   /\ Utf8WellFormed(view[t].bytes)
                   /\ Utf8Decode(view[t].bytes) = args[t][1].cps
            /\ Done(t) =>
                   /\ ret[t].kind = "ok"
                   /\ SameText(ret[t].val, NativeResultFor(args[t][1]))

IdentityWitness ==
    /\ Done("t1") /\ args["t1"] = <<PyStr(<<>>)>>
    /\ ret["t1"] = Returned(PyStr(<<72, 101, 108, 108, 111, 44, 32, 33>>))
    /\ Done("t2") /\ args["t2"] = <<PyStr(<<233, 127757>>)>>
    /\ ret["t2"] = Returned(PyStr(<<72, 101, 108, 108, 111, 44, 32, 233, 127757, 33>>))

\* C2: when calls run concurrently with different inputs, under every
\* interleaving of their steps each call computes and returns the Native
\* Function's result for its own input, and never the result for the input
\* of another call.
NoCrossContamination ==
    \A t \in Threads :
        /\ (pc[t] = "convert" /\ ValidCall(args[t])) =>
               out[t] = Holding(NativeResultFor(args[t][1]))
        /\ (Done(t) /\ ValidCall(args[t])) =>
               /\ ret[t].kind = "ok"
               /\ Utf8Encode(ret[t].val.cps) = NativeResultFor(args[t][1])
               /\ \A u \in Threads \ {t} :
                      (pc[u] # "idle" /\ ValidCall(args[u]) /\ args[u] # args[t]) =>
                          Utf8Encode(ret[t].val.cps) # NativeResultFor(args[u][1])

ConcurrentWitness ==
    /\ pc["t1"] = "convert" /\ args["t1"] = <<PyStr(<<97>>)>>
    /\ out["t1"] = Holding(<<72, 101, 108, 108, 111, 44, 32, 97, 33>>)
    /\ Done("t2") /\ args["t2"] = <<PyStr(<<233>>)>>
    /\ steps["t1"].in = 1 /\ ret["t2"].kind = "ok"
    /\ view["t1"].held

\* C3: a call whose argument cannot be interpreted as a native string fails at
\* the marshal-in step with a host exception: the Native Function and the
\* marshal-out step never run for it and no string is ever returned.
EncodingFailureRaises ==
    \A t \in Threads :
        (pc[t] # "idle" /\ Unmarshallable(args[t])) =>
            /\ pc[t] \in {"extract", "done"}
            /\ ret[t].kind # "ok"
            /\ ret[t].val = NoValue
            /\ steps[t].native = 0 /\ steps[t].out = 0
            /\ Done(t) =>
                   /\ ret[t].kind = "err"
                   /\ ret[t].exc \in {"TypeError", "UnicodeEncodeError"}
                   /\ steps[t].in = 1

EncodingFailureWitness ==
    /\ Done("t1") /\ args["t1"] = <<PyStr(<<97, 55296>>)>>
    /\ ret["t1"] = Raised("UnicodeEncodeError")
    /\ Done("t2") /\ args["t2"] = <<PyInt>>
    /\ ret["t2"] = Raised("TypeError")

\* C4: every call is one all-or-nothing attempt: no step of a call runs more
\* than once, nothing is visible to the caller before the call ends, and the
\* call ends either with a value and no exception, after all three steps, or
\* with an exception and no value.
AllOrNothing ==
    \A t \in Threads :
        /\ steps[t].in <= 1 /\ steps[t].native <= 1 /\ steps[t].out <= 1
        /\ ~Done(t) => ret[t] = NoOutcome
        /\ Done(t) =>
               \/ /\ ret[t].kind = "ok"
                  /\ ret[t].val.type = "str"
                  /\ ret[t].exc = ""
                  /\ steps[t] = [in |-> 1, native |-> 1, out |-> 1]
               \/ /\ ret[t].kind = "err"
                  /\ ret[t].val = NoValue
                  /\ ret[t].exc # ""

AllOrNothingWitness ==
    /\ Done("t1") /\ ret["t1"].kind = "ok"
    /\ steps["t1"] = [in |-> 1, native |-> 1, out |-> 1]
    /\ Done("t2") /\ ret["t2"].kind = "err"
    /\ steps["t2"] = [in |-> 1, native |-> 0, out |-> 0]

\* C5: once module initialization has completed, no step (no call, on any
\* thread, successful or failing) adds, removes or replaces an entry of the
\* module registration table.
RegistryWrittenOnce == [][InitCompleted => Registry' = Registry]_vars

RegistryWitness ==
    /\ initPc = "loaded"
    /\ Registry = <<{"_rust"}, {"hello"}>>
    /\ Done("t1") /\ ret["t1"].kind = "ok"
    /\ Done("t2") /\ ret["t2"].kind = "err"

\* C6: after a successful load the module is registered under the name
\* "_rust" and holds exactly one callable, "hello", which is what every call
\* resolves and which succeeds on a single positional string argument and
\* rejects any other arity; no other name is ever registered.
Discovery ==
    /\ sysModules \subseteq {"_rust"}
    /\ moduleDict \subseteq {"hello"}
    /\ initResult = "Ok" => moduleDict = {"hello"}
    /\ initPc = "loaded" => sysModules = {"_rust"}
    /\ \A t \in Threads :
           /\ pc[t] # "idle" => ("_rust" \in sysModules /\ "hello" \in moduleDict)
           /\ (Done(t) /\ ValidCall(args[t])) => ret[t].kind = "ok"
           /\ (Done(t) /\ Len(args[t]) # 1) => ret[t] = Raised("TypeError")

DiscoveryWitness ==
    /\ initPc = "loaded"
    /\ sysModules = {"_rust"} /\ moduleDict = {"hello"}
    /\ Done("t1") /\ args["t1"] = <<PyStr(<<97>>)>> /\ ret["t1"].kind = "ok"
    /\ Done("t2") /\ Len(args["t2"]) = 2 /\ ret["t2"].kind = "err"

\* C7: two completed calls with the same input hold byte-identical outcomes,
\* whatever other calls ran before, between or beside them.
Determinism ==
    \A t, u \in Threads :
        (Done(t) /\ Done(u) /\ args[t] = args[u]) => ret[t] = ret[u]

DeterminismWitness ==
    /\ Done("t1") /\ Done("t2")
    /\ args["t1"] = <<PyStr(<<127757, 97>>)>>
    /\ args["t2"] = args["t1"]
    /\ ret["t1"].kind = "ok" /\ ret["t2"] = ret["t1"]

\* C8: the native side holds a view of a call's input or a copy of its
\* output only while that call is in progress: before a call and after it
\* has returned, with a value or with an error, both slots are empty.
NoRetention ==
    \A t \in Threads :
        /\ ~InProgress(t) => (view[t] = Empty /\ out[t] = Empty)
        /\ pc[t] = "extract" => (view[t] = Empty /\ out[t] = Empty)
        /\ pc[t] = "native" => out[t] = Empty

NoRetentionWitness ==
    /\ Done("t1") /\ ret["t1"].kind = "ok" /\ steps["t1"].native = 1
    /\ view["t1"] = Empty /\ out["t1"] = Empty
    /\ pc["t2"] = "convert" /\ view["t2"].held /\ out["t2"].held

\* C9: every started call eventually completes, and while it is in progress
\* its next step can always be taken, whatever the other calls are doing.
NonBlocking ==
    /\ [](\A t \in Threads : InProgress(t) => ENABLED CallStep(t))
    /\ \A t \in Threads : InProgress(t) ~> Done(t)

NonBlockingWitness ==
    /\ pc["t1"] = "native"
    /\ pc["t2"] = "convert"

\* C10: hello_py returns Ok only after the function was wrapped and added to
\* the module; a failure of either step is what hello_py returns, and a
\* module whose initialization succeeded holds the hello entry.
InitOkOnlyIfAdded ==
    /\ initResult = "Ok" =>
           (wrapped = "hello" /\ "hello" \in moduleDict /\ initFailure = "none")
    /\ (initFailure # "none") => (initResult = "Err" /\ initPc \in {"returned", "failed"})
    /\ initPc = "loaded" => (initResult = "Ok" /\ "hello" \in moduleDict)
    /\ initPc = "failed" => sysModules = {}

InitFailureWitness ==
    /\ initPc = "failed"
    /\ initFailure = "add"
    /\ initResult = "Err"
    /\ wrapped = "hello" /\ moduleDict = {}

====
